---- MODULE Spec2Model ----
(***************************************************************************)
(* BetterFeedback web client: the App analyze state machine (App.jsx), the *)
(* FileUpload component (FileUpload.jsx) and the HistoryPage component     *)
(* (HistoryPage.jsx), with the asynchronous file reads and HTTP requests   *)
(* they start, and the Flask back end they talk to (validator, analyzer,   *)
(* persistence store, HTTP routes).  Every event handler, and every        *)
(* continuation after an await / promise / FileReader callback, is one     *)
(* atomic action (React 18 batches the state updates of one callback into  *)
(* one render).                                                            *)
(*                                                                         *)
(* JavaScript strings are sequences of one-character strings.  A nullable  *)
(* value is a sequence of length at most one: Null is << >>, and Some(v)   *)
(* is << v >>.                                                             *)
(***************************************************************************)
EXTENDS Integers, Sequences, FiniteSets, Bags, TLC

VARIABLES
    view,       \* App: 'analyze' | 'history'
    rawText,    \* App: nullable string
    status,     \* App: idle | ready | loading | success | error
    items,      \* App: list of feedback items
    errorMsg,   \* App: nullable message
    fileName,   \* FileUpload: nullable string
    fileSize,   \* FileUpload: nullable size label (tenths of a KB)
    chosen,     \* FileUpload: the read started for the file now shown (nullable)
    reads,      \* bag of the FileReaders started and not yet loaded
    requests,   \* bag of the POST /api/analyze requests issued and not yet resolved
    runs,       \* HistoryPage: list of runs
    hstatus,    \* HistoryPage: loading | success | error (unmounted when not rendered)
    expanded,   \* HistoryPage: nullable run id
    hfetch,     \* HistoryPage: GET /api/history of the mounted page is pending
    evOp,       \* the last event handled: its kind,
    evArg,      \*   its outcome,
    evFrom,     \*   and the status it found
    store,      \* back end: the stored analysis runs, oldest first
    adapterCalls, \* back end: calls made to the AI adapter
    request,    \* back end: the last HTTP request handled (route 'none' before the first)
    response    \* back end: the answer given to it

vars == <<view, rawText, status, items, errorMsg, fileName, fileSize, chosen,
          reads, requests, runs, hstatus, expanded, hfetch, evOp, evArg, evFrom,
          store, adapterCalls, request, response>>

appVars == <<rawText, status, items, errorMsg>>
uploadVars == <<fileName, fileSize, chosen>>
historyVars == <<runs, hstatus, expanded, hfetch>>
clientVars == <<view, appVars, uploadVars, reads, requests, historyVars,
                evOp, evArg, evFrom>>
serverVars == <<store, adapterCalls, request, response>>

----------------------------------------------------------------------------
(* Bounds of the model *)

\* asynchronous operations of the page (file reads and analyze requests)
\* that may be in flight at once
MaxPending == 2

----------------------------------------------------------------------------
(* JavaScript values *)

Null == << >>

Some(v) == << v >>

\* JavaScript truthiness of a nullable string: neither null nor ''
Truthy(o) == o # Null /\ o[1] # << >>

\* a ?? b
Coalesce(o, d) == IF o = Null THEN d ELSE o[1]

Max(a, b) == IF a >= b THEN a ELSE b

Min(a, b) == IF a <= b THEN a ELSE b

\* String.prototype.lastIndexOf for a one-character needle: 0-based, -1 if absent
LastIndexOf(s, c) ==
    IF \E i \in 1..Len(s) : s[i] = c
    THEN (CHOOSE i \in 1..Len(s) : s[i] = c /\ \A j \in (i+1)..Len(s) : s[j] # c) - 1
    ELSE -1

\* String.prototype.slice(start): a negative start counts from the end
Slice(s, start) ==
    LET from == IF start < 0 THEN Max(Len(s) + start, 0) ELSE Min(start, Len(s))
    IN  SubSeq(s, from + 1, Len(s))

LowerChar(c) ==
    CASE c = "T" -> "t"
      [] c = "X" -> "x"
      [] c = "J" -> "j"
      [] c = "S" -> "s"
      [] c = "O" -> "o"
      [] c = "N" -> "n"
      [] OTHER -> c

\* String.prototype.toLowerCase
ToLowerCase(s) == [i \in 1..Len(s) |-> LowerChar(s[i])]

----------------------------------------------------------------------------
(* JSON.parse and JSON.stringify(value, null, 2) on the JSON texts built   *)
(* from arrays and the digit 1: a value is [t |-> "num", d |-> digits] or  *)
(* [t |-> "arr", e |-> <<values>>].                                        *)

IsWs(c) == c \in {" ", "\n"}

\* the first position at or after i that holds no white space
SkipWs(s, i) ==
    IF \E j \in i..Len(s) : ~IsWs(s[j])
    THEN CHOOSE j \in i..Len(s) : ~IsWs(s[j]) /\ \A k \in i..(j-1) : IsWs(s[k])
    ELSE Len(s) + 1

\* the first position at or after i that holds no digit
SkipDigits(s, i) ==
    IF \E j \in i..Len(s) : s[j] # "1"
    THEN CHOOSE j \in i..Len(s) : s[j] # "1" /\ \A k \in i..(j-1) : s[k] = "1"
    ELSE Len(s) + 1

ParseFail == [ok |-> FALSE, val |-> Null, next |-> 0]

RECURSIVE ParseValue(_, _)
RECURSIVE ParseElems(_, _, _)

\* one JSON value starting at position i (white space skipped)
ParseValue(s, i) ==
    LET p == SkipWs(s, i)
    IN  IF p > Len(s) THEN ParseFail
        ELSE IF s[p] = "1"
        THEN LET q == SkipDigits(s, p)
             IN  [ok |-> TRUE, val |-> [t |-> "num", d |-> SubSeq(s, p, q - 1)], next |-> q]
        ELSE IF s[p] = "["
        THEN LET q == SkipWs(s, p + 1)
             IN  IF q <= Len(s) /\ s[q] = "]"
                 THEN [ok |-> TRUE, val |-> [t |-> "arr", e |-> << >>], next |-> q + 1]
                 ELSE ParseElems(s, q, << >>)
        ELSE ParseFail

\* the elements of an array after '[' (or after ','), up to the closing ']'
ParseElems(s, i, acc) ==
    LET r == ParseValue(s, i)
    IN  IF ~r.ok THEN ParseFail
        ELSE LET q == SkipWs(s, r.next)
             IN  IF q > Len(s) THEN ParseFail
                 ELSE IF s[q] = "," THEN ParseElems(s, q + 1, Append(acc, r.val))
                 ELSE IF s[q] = "]"
                 THEN [ok |-> TRUE, val |-> [t |-> "arr", e |-> Append(acc, r.val)],
                       next |-> q + 1]
                 ELSE ParseFail

\* JSON.parse(text): ok is FALSE where JSON.parse throws a SyntaxError
JSONparse(s) ==
    LET r == ParseValue(s, 1)
    IN  IF r.ok /\ SkipWs(s, r.next) > Len(s) THEN r ELSE ParseFail

Spaces(n) == [i \in 1..n |-> " "]

RECURSIVE Stringify(_, _, _)
RECURSIVE StringifyElems(_, _, _, _)

\* JSON.stringify(v, null, gap) of a value nested at indentation `cur`
Stringify(v, gap, cur) ==
    IF v.t = "num" THEN v.d
    ELSE IF Len(v.e) = 0 THEN <<"[", "]">>
    ELSE <<"[", "\n">> \o StringifyElems(v.e, 1, gap, cur + gap)
         \o <<"\n">> \o Spaces(cur) \o <<"]">>

\* the elements k.. of an array, one per line at indentation `ind`
StringifyElems(e, k, gap, ind) ==
    IF k > Len(e) THEN << >>
    ELSE Spaces(ind) \o Stringify(e[k], gap, ind)
         \o (IF k < Len(e) THEN <<",", "\n">> ELSE << >>)
         \o StringifyElems(e, k + 1, gap, ind)

JSONstringify(v, gap) == Stringify(v, gap, 0)

----------------------------------------------------------------------------
(* Inputs: the files a user may pick or drop, the responses the API may    *)
(* give to POST /api/analyze and to GET /api/history.                      *)

Name_a_b_TXT == <<"a", ".", "b", ".", "T", "X", "T">>

Name_a_json == <<"a", ".", "j", "s", "o", "n">>

Name_a_txt_x == <<"a", ".", "t", "x", "t", ".", "x">>

Name_txt == <<"t", "x", "t">>

Name_a_json_dot == <<"a", ".", "j", "s", "o", "n", ".">>

\* [[1], 1]
JsonText == <<"[", "[", "1", "]", ",", " ", "1", "]">>

File(n, c) == [name |-> n, content |-> c]

\* the File objects a user may choose: file.name, and the text that
\* FileReader.readAsText yields for it
Files ==
    { File(Name_a_b_TXT, JsonText),
      File(Name_a_json, JsonText),
      File(Name_a_json, << >>),
      File(Name_a_txt_x, JsonText),
      File(Name_txt, JsonText),
      File(Name_a_json_dot, JsonText) }

\* file.size, in bytes
FileSizeOf(f) == Len(f.content)

Item(c, t) == [category |-> c, summary |-> t]

FeedbackList == << Item("Feature", "s2"), Item("Bug", "s1"), Item("Feature", "s4") >>

\* the error strings of a body: '', or a message (one token)
ErrorTexts == { << >>, << "AI service error" >> }

\* what the fetch of POST /api/analyze can come to: the promise rejects
\* (network), res.json() rejects (badbody), or a JSON body whose error and
\* items fields are present or absent (null)
Responses ==
    { [kind |-> "network", error |-> Null, items |-> Null],
      [kind |-> "badbody", error |-> Null, items |-> Null] }
    \cup [kind : {"json"}, error : {Null} \cup {Some(e) : e \in ErrorTexts},
          items : {Null, Some(FeedbackList)}]

Run(id, l) == [id |-> id, items |-> l]

\* the bodies GET /api/history?limit=50 may answer with
HistoryResponses ==
    { << >>,
      << Run(2, << Item("Pain Point", "s3"), Item("Bug", "s1"),
                   Item("Pain Point", "s5") >>),
         Run(1, << Item("Feature", "s2") >>) >> }

CouldNotReach == << "Could not reach the API. Is the Flask server running?" >>

\* the placeholder text of a restored run: one token, no file has it
RestoredText == << "(restored from history)" >>

Statuses == {"idle", "ready", "loading", "success", "error"}

----------------------------------------------------------------------------
(* App.jsx *)

Init ==
    /\ view = "analyze"
    /\ rawText = Null
    /\ status = "idle"
    /\ items = << >>
    /\ errorMsg = Null
    /\ fileName = Null
    /\ fileSize = Null
    /\ chosen = Null
    /\ reads = EmptyBag
    /\ requests = EmptyBag
    /\ runs = << >>
    /\ hstatus = "unmounted"
    /\ expanded = Null
    /\ hfetch = FALSE
    /\ evOp = "init"
    /\ evArg = ""
    /\ evFrom = "idle"
    /\ store = << >>
    /\ adapterCalls = 0
    /\ request = [route |-> "none", body |-> Null, limit |-> 0,
                  out |-> [ok |-> TRUE, array |-> << >>, code |-> ""]]
    /\ response = [status |-> 0, history |-> << >>,
                   analyze |-> [items |-> << >>, count |-> 0, error |-> Null]]

\* the record of the event being handled (bookkeeping for the properties)
Event(op, arg) == evOp' = op /\ evArg' = arg /\ evFrom' = status

\* handleUpload without the reset of items
handleUpload_KeepsItems(text) ==
    /\ rawText' = text
    /\ status' = IF Truthy(text) THEN "ready" ELSE "idle"
    /\ items' = items
    /\ errorMsg' = Null

\* handleAnalyzeResume with the catch branch leaving status as it is
handleAnalyzeResume_CatchKeepsStatus(resp) ==
    IF resp.kind # "json"
    THEN /\ errorMsg' = Some(CouldNotReach)
         /\ UNCHANGED <<rawText, status, items>>
    ELSE IF Truthy(resp.error)
    THEN /\ errorMsg' = resp.error
         /\ status' = "error"
         /\ UNCHANGED <<rawText, items>>
    ELSE /\ items' = Coalesce(resp.items, << >>)
         /\ status' = "success"
         /\ UNCHANGED <<rawText, errorMsg>>

\* handleUpload with the status chosen by `text !== null`
handleUpload_NullCheck(text) ==
    /\ rawText' = text
    /\ status' = IF text # Null THEN "ready" ELSE "idle"
    /\ items' = << >>
    /\ errorMsg' = Null

\* handleUpload(text)
handleUpload(text) ==
    /\ rawText' = text
    /\ status' = IF Truthy(text) THEN "ready" ELSE "idle"
    /\ items' = << >>
    /\ errorMsg' = Null

\* handleAnalyze(), up to the await of fetch
handleAnalyze ==
    IF ~Truthy(rawText)
    THEN UNCHANGED <<appVars, requests>>
    ELSE /\ status' = "loading"
         /\ errorMsg' = Null
         /\ requests' = requests (+) SetToBag({[text |-> rawText[1]]})
         /\ UNCHANGED <<rawText, items>>

\* the resumption with the error branch taken on `data.error != null`
handleAnalyzeResume_NonNullError(resp) ==
    IF resp.kind # "json"
    THEN /\ errorMsg' = Some(CouldNotReach)
         /\ status' = "error"
         /\ UNCHANGED <<rawText, items>>
    ELSE IF resp.error # Null
    THEN /\ errorMsg' = resp.error
         /\ status' = "error"
         /\ UNCHANGED <<rawText, items>>
    ELSE /\ items' = Coalesce(resp.items, << >>)
         /\ status' = "success"
         /\ UNCHANGED <<rawText, errorMsg>>

\* the resumption with setErrorMsg left out of the catch block
handleAnalyzeResume_NoCatchMessage(resp) ==
    IF resp.kind # "json"
    THEN /\ status' = "error"
         /\ UNCHANGED <<rawText, items, errorMsg>>
    ELSE IF Truthy(resp.error)
    THEN /\ errorMsg' = resp.error
         /\ status' = "error"
         /\ UNCHANGED <<rawText, items>>
    ELSE /\ items' = Coalesce(resp.items, << >>)
         /\ status' = "success"
         /\ UNCHANGED <<rawText, errorMsg>>

\* handleAnalyze(), from the await of fetch on: the response resp has come
handleAnalyzeResume(resp) ==
    IF resp.kind # "json"
    THEN /\ errorMsg' = Some(CouldNotReach)
         /\ status' = "error"
         /\ UNCHANGED <<rawText, items>>
    ELSE IF Truthy(resp.error)
    THEN /\ errorMsg' = resp.error
         /\ status' = "error"
         /\ UNCHANGED <<rawText, items>>
    ELSE /\ items' = Coalesce(resp.items, << >>)
         /\ status' = "success"
         /\ UNCHANGED <<rawText, errorMsg>>

\* handleRestore adding the restored items to the ones shown
handleRestore_Append(restoredItems) ==
    /\ items' = items \o restoredItems
    /\ status' = "success"
    /\ rawText' = Some(RestoredText)
    /\ UNCHANGED errorMsg

\* handleRestore(restoredItems)
handleRestore(restoredItems) ==
    /\ items' = restoredItems
    /\ status' = "success"
    /\ rawText' = Some(RestoredText)
    /\ UNCHANGED errorMsg

\* the file reads and analyze requests in flight
Pending == BagCardinality(reads) + BagCardinality(requests)

isLoading == status = "loading"

\* canAnalyze with the error status let in
canAnalyze_WithError == status = "ready" \/ status = "success" \/ status = "error"

canAnalyze == status = "ready" \/ status = "success"

\* the render: which parts of the page exist
FileUploadMounted == view = "analyze"

HistoryPageMounted == view = "history"

AnalyzeButtonEnabled == view = "analyze" /\ ~(~canAnalyze \/ isLoading)

ErrorBannerShown == view = "analyze" /\ status = "error" /\ Truthy(errorMsg)

DashboardShown == view = "analyze" /\ status = "success"

\* setView(v): the component of the other view unmounts and loses its state,
\* the component of v mounts with its initial state; HistoryPage's effect
\* starts its fetch on mount
setView(v) ==
    /\ view' = v
    /\ IF v = view THEN UNCHANGED <<uploadVars, historyVars>>
       ELSE IF v = "history"
       THEN /\ fileName' = Null /\ fileSize' = Null /\ chosen' = Null
            /\ runs' = << >> /\ hstatus' = "loading" /\ expanded' = Null
            /\ hfetch' = TRUE
       ELSE /\ fileName' = Null /\ fileSize' = Null /\ chosen' = Null
            /\ runs' = << >> /\ hstatus' = "unmounted" /\ expanded' = Null
            /\ hfetch' = FALSE

\* a click on the header's Analyze or History button
ClickNav(v) ==
    /\ Event("nav", v)
    /\ UNCHANGED serverVars
    /\ setView(v)
    /\ UNCHANGED <<appVars, reads, requests>>

\* a click on the enabled Analyze Feedback button
ClickAnalyze ==
    /\ AnalyzeButtonEnabled
    /\ Pending < MaxPending
    /\ Event("analyze", "")
    /\ UNCHANGED serverVars
    /\ handleAnalyze
    /\ UNCHANGED <<view, uploadVars, historyVars, reads>>

ResponseTag(resp) ==
    IF resp.kind # "json" THEN "catch"
    ELSE IF resp.error = Null THEN "error-null"
    ELSE IF resp.error = Some(<< >>) THEN "error-empty"
    ELSE "error-text"

\* the resolution dropped while the history view is shown
ResolveAnalyze_OnlyInAnalyzeView(req, resp) ==
    /\ view = "analyze"
    /\ BagIn(req, requests)
    /\ Event("resolve", ResponseTag(resp))
    /\ UNCHANGED serverVars
    /\ handleAnalyzeResume(resp)
    /\ requests' = requests (-) SetToBag({req})
    /\ UNCHANGED <<view, uploadVars, historyVars, reads>>

\* the outstanding request req resolves with resp
ResolveAnalyze(req, resp) ==
    /\ BagIn(req, requests)
    /\ Event("resolve", ResponseTag(resp))
    /\ UNCHANGED serverVars
    /\ handleAnalyzeResume(resp)
    /\ requests' = requests (-) SetToBag({req})
    /\ UNCHANGED <<view, uploadVars, historyVars, reads>>

----------------------------------------------------------------------------
(* FileUpload.jsx (its dragOver flag, which only styles the drop area, is  *)
(* left out)                                                               *)

validExts == { <<".", "t", "x", "t">>, <<".", "j", "s", "o", "n">> }

\* file.name.slice(file.name.lastIndexOf('.')).toLowerCase()
ExtOf(name) == ToLowerCase(Slice(name, LastIndexOf(name, ".")))

\* the test `validExts.some(e => name.toLowerCase().includes(e))`
ValidExt_Contains(name) ==
    \E e \in validExts : \E k \in 1..Len(name) :
        k + Len(e) - 1 <= Len(name) /\ ToLowerCase(SubSeq(name, k, k + Len(e) - 1)) = e

\* validExts.includes(ext)
ValidExt(name) == ExtOf(name) \in validExts

\* (file.size / 1024).toFixed(1), as a number of tenths of a KB
ToFixed1KB(size) == (20 * size + 1024) \div 2048

\* the onload text with the extension compared to 'json', without its dot
OnloadText_NoDot(ext, content) ==
    IF ext = <<"j", "s", "o", "n">>
    THEN LET parsed == JSONparse(content)
         IN  IF parsed.ok THEN JSONstringify(parsed.val, 2) ELSE content
    ELSE content

\* the text reader.onload hands to onUpload, for a read started with `ext`
OnloadText(ext, content) ==
    IF ext = <<".", "j", "s", "o", "n">>
    THEN LET parsed == JSONparse(content)
         IN  IF parsed.ok THEN JSONstringify(parsed.val, 2) ELSE content
    ELSE content

\* the FileReader started for a file: what its onload closure holds
ReadOf(f) == [ext |-> ExtOf(f.name), content |-> f.content]

\* readFile(file): file is Null (no file) or Some(File)
readFile(file) ==
    IF file = Null
    THEN UNCHANGED <<fileName, fileSize, chosen, reads>>
    ELSE IF ~ValidExt(file[1].name)
    THEN UNCHANGED <<fileName, fileSize, chosen, reads>>
    ELSE /\ Pending < MaxPending
         /\ fileName' = Some(file[1].name)
         /\ fileSize' = Some(ToFixed1KB(FileSizeOf(file[1])))
         /\ chosen' = Some(ReadOf(file[1]))
         /\ reads' = reads (+) SetToBag({ReadOf(file[1])})

ReadFileTag(file) ==
    IF file = Null THEN "nofile"
    ELSE IF ~ValidExt(file[1].name) THEN "rejected" ELSE "accepted"

\* handleDrop: a drop on the upload area (the area has no disabled state)
HandleDrop(file) ==
    /\ FileUploadMounted
    /\ Event("drop", ReadFileTag(file))
    /\ UNCHANGED serverVars
    /\ readFile(file)
    /\ UNCHANGED <<view, appVars, requests, historyVars>>

\* handleChange: a choice in the file picker (the input is disabled while loading)
HandleChange(file) ==
    /\ FileUploadMounted
    /\ ~isLoading
    /\ Event("change", ReadFileTag(file))
    /\ UNCHANGED serverVars
    /\ readFile(file)
    /\ UNCHANGED <<view, appVars, requests, historyVars>>

\* handleClear: the Clear button exists while a file name is shown and is
\* disabled while loading
HandleClear ==
    /\ FileUploadMounted
    /\ fileName # Null
    /\ ~isLoading
    /\ Event("clear", "")
    /\ UNCHANGED serverVars
    /\ fileName' = Null
    /\ fileSize' = Null
    /\ chosen' = Null
    /\ handleUpload(Null)
    /\ UNCHANGED <<view, reads, requests, historyVars>>

\* reader.onload of the pending read rd
ReaderOnload(rd) ==
    /\ BagIn(rd, reads)
    /\ Event("onload", IF rd.ext = <<".", "j", "s", "o", "n">> THEN "json" ELSE "txt")
    /\ UNCHANGED serverVars
    /\ handleUpload(Some(OnloadText(rd.ext, rd.content)))
    /\ reads' = reads (-) SetToBag({rd})
    /\ UNCHANGED <<view, uploadVars, requests, historyVars>>

----------------------------------------------------------------------------
(* Dashboard.jsx, rendered with the App's items *)

\* items.filter((i) => i.category === category)
Filter(its, category) ==
    LET Test(i) == i.category = category IN SelectSeq(its, Test)

bugs == Filter(items, "Bug")

features == Filter(items, "Feature")

\* the third column filtered by the name 'PainPoint'
pains_PainPoint == Filter(items, "PainPoint")

pains == Filter(items, "Pain Point")

\* the columns rendered, left to right, each with its category
Columns ==
    << [category |-> "Bug", items |-> bugs],
       [category |-> "Feature", items |-> features],
       [category |-> "Pain Point", items |-> pains] >>

\* the badge of a column: items.length
ColumnBadge(col) == Len(col.items)

\* the dashboard-count: items.length
DashboardCount == Len(items)

----------------------------------------------------------------------------
(* HistoryPage.jsx *)

RunsOf(l) == {l[k] : k \in 1..Len(l)}

\* every run some history response holds
AllRuns == UNION {RunsOf(data) : data \in HistoryResponses}

\* the fetch of the mounted page resolves with the runs `data`
HistoryLoaded(data) ==
    /\ HistoryPageMounted
    /\ hfetch
    /\ Event("history", "loaded")
    /\ UNCHANGED serverVars
    /\ runs' = data
    /\ hstatus' = "success"
    /\ hfetch' = FALSE
    /\ UNCHANGED <<view, appVars, uploadVars, reads, requests, expanded>>

\* the fetch of the mounted page, or the parse of its body, fails
HistoryFailed ==
    /\ HistoryPageMounted
    /\ hfetch
    /\ Event("history", "failed")
    /\ UNCHANGED serverVars
    /\ hstatus' = "error"
    /\ hfetch' = FALSE
    /\ UNCHANGED <<view, appVars, uploadVars, reads, requests, runs, expanded>>

\* the run list is rendered, with the header of each run
RunShown(run) == HistoryPageMounted /\ hstatus = "success" /\ Len(runs) > 0 /\ run \in RunsOf(runs)

\* the Restore button rendered for every listed run
RestoreShown_AnyRun(run) == RunShown(run)

\* the Restore button of a run is rendered
RestoreShown(run) == RunShown(run) /\ expanded = Some(run.id)

\* a click on the header of a run
ToggleExpanded(run) ==
    /\ RunShown(run)
    /\ Event("expand", "")
    /\ UNCHANGED serverVars
    /\ expanded' = IF expanded = Some(run.id) THEN Null ELSE Some(run.id)
    /\ UNCHANGED <<view, appVars, uploadVars, reads, requests, runs, hstatus, hfetch>>

\* handleRestore(run) of HistoryPage: onRestore(run.items); onBack()
ClickRestore(run) ==
    /\ RestoreShown(run)
    /\ Event("restore", "")
    /\ UNCHANGED serverVars
    /\ handleRestore(run.items)
    /\ setView("analyze")
    /\ UNCHANGED <<reads, requests>>

\* the Back button: onBack()
ClickBack ==
    /\ HistoryPageMounted
    /\ Event("back", "")
    /\ UNCHANGED serverVars
    /\ setView("analyze")
    /\ UNCHANGED <<appVars, reads, requests>>

----------------------------------------------------------------------------

Next ==
    \/ \E v \in {"analyze", "history"} : ClickNav(v)
    \/ ClickAnalyze
    \/ \E req \in BagToSet(requests), resp \in Responses : ResolveAnalyze(req, resp)
    \/ \E file \in {Null} \cup {Some(f) : f \in Files} : HandleDrop(file)
    \/ \E file \in {Null} \cup {Some(f) : f \in Files} : HandleChange(file)
    \/ HandleClear
    \/ \E rd \in BagToSet(reads) : ReaderOnload(rd)
    \/ \E data \in HistoryResponses : HistoryLoaded(data)
    \/ HistoryFailed
    \/ \E run \in AllRuns : ToggleExpanded(run)
    \/ \E run \in AllRuns : ClickRestore(run)
    \/ ClickBack

Spec == Init /\ [][Next]_vars

\* every issued analyze request eventually resolves or rejects
FairSpec ==
    Spec /\ WF_vars(\E req \in BagToSet(requests), resp \in Responses :
                        ResolveAnalyze(req, resp))

----------------------------------------------------------------------------
(* The back end: Schema/Validator, AI Client Adapter, Analyzer Service,    *)
(* Persistence Store and HTTP API Surface.  A handler runs to completion   *)
(* before the next one starts (no async, no task queues).  A value of the  *)
(* adapter's parsed JSON is a record with its JSON type; a sentiment score *)
(* is counted in hundredths, so [0,1] is 0..100.  The input_preview of a   *)
(* run is left out.                                                        *)

\* analysis runs the store may hold, and POSTs the adapter may be called for
MaxRuns == 3

JNum(n) == [type |-> "number", num |-> n, str |-> ""]

JStr(t) == [type |-> "string", num |-> 0, str |-> t]

\* one element of the adapter's array: each field a JSON value, or absent
Raw(c, t, n, o) ==
    [category |-> c, summary |-> t, sentiment_score |-> n, original_text |-> o]

Categories == {"Bug", "Feature", "Pain Point"}

FeedbackItem(c, t, n, o) ==
    [category |-> c, summary |-> t, sentiment_score |-> n, original_text |-> o]

ValidationFailure(field, why) ==
    [ok |-> FALSE, item |-> Null, field |-> field, reason |-> why]

Valid(item) == [ok |-> TRUE, item |-> Some(item), field |-> "", reason |-> ""]

\* a required string field: present, a string, not empty
StringFieldFailure(v) ==
    IF v = Null THEN "missing"
    ELSE IF v[1].type # "string" THEN "not a string"
    ELSE IF v[1].str = "" THEN "empty"
    ELSE ""

\* the score field with the upper end of the interval left out
ScoreFieldFailure_BelowOne(v) ==
    IF v = Null THEN "missing"
    ELSE IF v[1].type # "number" THEN "not a number"
    ELSE IF v[1].num < 0 \/ v[1].num >= 100 THEN "out of range"
    ELSE ""

\* the score field: present, numeric, within [0,1]
ScoreFieldFailure(v) ==
    IF v = Null THEN "missing"
    ELSE IF v[1].type # "number" THEN "not a number"
    ELSE IF v[1].num < 0 \/ v[1].num > 100 THEN "out of range"
    ELSE ""

\* the category field: present, a string, one of the three literals
CategoryFieldFailure(v) ==
    IF v = Null THEN "missing"
    ELSE IF v[1].type # "string" THEN "not a string"
    ELSE IF v[1].str \notin Categories THEN "not a category"
    ELSE ""

\* validate(raw) -> FeedbackItem | ValidationFailure
validate(raw) ==
    IF CategoryFieldFailure(raw.category) # ""
    THEN ValidationFailure("category", CategoryFieldFailure(raw.category))
    ELSE IF StringFieldFailure(raw.summary) # ""
    THEN ValidationFailure("summary", StringFieldFailure(raw.summary))
    ELSE IF ScoreFieldFailure(raw.sentiment_score) # ""
    THEN ValidationFailure("sentiment_score", ScoreFieldFailure(raw.sentiment_score))
    ELSE IF StringFieldFailure(raw.original_text) # ""
    THEN ValidationFailure("original_text", StringFieldFailure(raw.original_text))
    ELSE Valid(FeedbackItem(raw.category[1].str, raw.summary[1].str,
                            raw.sentiment_score[1].num, raw.original_text[1].str))

\* the adapter's result: an array of untyped values, or an AIServiceError
ReasonCodes == {"ParseError", "NetworkError", "QuotaExceeded", "Unknown"}

AdapterOk(array) == [ok |-> TRUE, array |-> array, code |-> ""]

AIServiceError(code) == [ok |-> FALSE, array |-> << >>, code |-> code]

\* the human-readable message derived from the reason code
ErrorMessage(code) == "AI service error: " \o code

AnalyzeResponse(its, err) == [items |-> its, count |-> Len(its), error |-> err]

RECURSIVE Accumulate_StopAtInvalid(_, _, _)
\* step 3 of run, stopping at the first invalid element
Accumulate_StopAtInvalid(array, k, acc) ==
    IF k > Len(array) THEN acc
    ELSE IF validate(array[k]).ok
    THEN Accumulate_StopAtInvalid(array, k + 1, Append(acc, validate(array[k]).item[1]))
    ELSE acc

RECURSIVE Accumulate(_, _, _)
\* step 3 of run: the valid elements of array[k..], in order, after acc
Accumulate(array, k, acc) ==
    IF k > Len(array) THEN acc
    ELSE IF validate(array[k]).ok
    THEN Accumulate(array, k + 1, Append(acc, validate(array[k]).item[1]))
    ELSE Accumulate(array, k + 1, acc)

\* the text is empty only
IsBlank_EmptyOnly(text) == text = << >>

\* the text is empty or white space only
IsBlank(text) == \A i \in 1..Len(text) : IsWs(text[i])

\* what run does: its response, whether it called the adapter, and the
\* items it saved (Null when it saved no run)
Outcome(resp, called, saved) == [response |-> resp, called |-> called, saved |-> saved]

\* run with a run persisted on adapter failure too
AnalyzerRun_SaveOnFailure(text, out) ==
    IF IsBlank(text)
    THEN Outcome(AnalyzeResponse(<< >>, Some("empty input")), FALSE, Null)
    ELSE IF ~out.ok
    THEN Outcome(AnalyzeResponse(<< >>, Some(ErrorMessage(out.code))), TRUE, Some(<< >>))
    ELSE Outcome(AnalyzeResponse(Accumulate(out.array, 1, << >>), Null), TRUE,
                 Some(Accumulate(out.array, 1, << >>)))

\* run with count taken from the adapter's array
AnalyzerRun_CountRaw(text, out) ==
    IF IsBlank(text)
    THEN Outcome(AnalyzeResponse(<< >>, Some("empty input")), FALSE, Null)
    ELSE IF ~out.ok
    THEN Outcome(AnalyzeResponse(<< >>, Some(ErrorMessage(out.code))), TRUE, Null)
    ELSE Outcome([items |-> Accumulate(out.array, 1, << >>),
                  count |-> Len(out.array), error |-> Null], TRUE,
                 Some(Accumulate(out.array, 1, << >>)))

\* run(text) -> AnalyzeResponse, the adapter answering out if it is called
AnalyzerRun(text, out) ==
    IF IsBlank(text)
    THEN Outcome(AnalyzeResponse(<< >>, Some("empty input")), FALSE, Null)
    ELSE IF ~out.ok
    THEN Outcome(AnalyzeResponse(<< >>, Some(ErrorMessage(out.code))), TRUE, Null)
    ELSE Outcome(AnalyzeResponse(Accumulate(out.array, 1, << >>), Null), TRUE,
                 Some(Accumulate(out.array, 1, << >>)))

\* a stored run; ids and timestamps are handed out in the order of the saves
AnalysisRun(id, its) ==
    [id |-> id, created_at |-> id, item_count |-> Len(its), items |-> its]

\* save(items): the store after the save
save(runList, its) == Append(runList, AnalysisRun(Len(runList) + 1, its))

\* list with the oldest runs first
list_OldestFirst(runList, limit) ==
    [k \in 1..Min(Max(limit, 0), Len(runList)) |-> runList[k]]

\* list(limit): the runs most recent first, truncated to limit
list(runList, limit) ==
    [k \in 1..Min(Max(limit, 0), Len(runList)) |-> runList[Len(runList) + 1 - k]]

\* the status of POST /api/analyze always 200 for a well-formed body
AnalyzeStatus_Always200(malformed, failed) == IF malformed THEN 400 ELSE 200

\* the status of POST /api/analyze: 400 for a malformed body, 502 when the
\* AIServiceError was caught, 200 otherwise
AnalyzeStatus(malformed, failed) ==
    IF malformed THEN 400 ELSE IF failed THEN 502 ELSE 200

\* the request bodies: Null is a malformed body, Some(text) is {text: text}
Texts == { << >>, <<" ", "\n">>, <<" ", "x">>, <<"b", "u", "g">> }

Bodies == {Null} \cup {Some(t) : t \in Texts}

ScenarioA ==
    Raw(Some(JStr("Bug")), Some(JStr("Login button broken")), Some(JNum(10)),
        Some(JStr("The login button is broken.")))

SlowApp == Raw(Some(JStr("Pain Point")), Some(JStr("slow")), Some(JNum(100)), Some(JStr("o")))

DarkMode == Raw(Some(JStr("Feature")), Some(JStr("dark")), Some(JNum(0)), Some(JStr("o")))

Compliment == Raw(Some(JStr("Compliment")), Some(JStr("nice")), Some(JNum(90)), Some(JStr("o")))

ScoreTooBig == Raw(Some(JStr("Bug")), Some(JStr("s")), Some(JNum(101)), Some(JStr("o")))

NoSummary == Raw(Some(JStr("Bug")), Some(JStr("")), Some(JNum(50)), Some(JStr("o")))

NoOriginal == Raw(Some(JStr("Feature")), Some(JStr("s")), Some(JNum(50)), Null)

\* what the adapter may answer
AdapterOutputs ==
    { AdapterOk(<< >>),
      AdapterOk(<<ScenarioA>>),
      AdapterOk(<<ScenarioA, Compliment>>),
      AdapterOk(<<Compliment, SlowApp, ScoreTooBig, DarkMode>>),
      AdapterOk(<<NoSummary, NoOriginal>>),
      AdapterOk(<<DarkMode, NoOriginal, SlowApp>>) }
    \cup {AIServiceError(c) : c \in ReasonCodes}

Limits == 0..(MaxRuns + 1)

\* POST /api/analyze with the given body, the adapter answering out
PostAnalyze(body, out) ==
    /\ adapterCalls < MaxRuns
    /\ request' = [route |-> "analyze", body |-> body, out |-> out, limit |-> 0]
    /\ IF body = Null
       THEN /\ response' = [status |-> AnalyzeStatus(TRUE, FALSE),
                            analyze |-> AnalyzeResponse(<< >>, Some("invalid request")),
                            history |-> << >>]
            /\ UNCHANGED <<store, adapterCalls>>
       ELSE /\ response' = [status |-> AnalyzeStatus(FALSE, AnalyzerRun(body[1], out).called /\ ~out.ok),
                            analyze |-> AnalyzerRun(body[1], out).response,
                            history |-> << >>]
            /\ adapterCalls' = adapterCalls + (IF AnalyzerRun(body[1], out).called THEN 1 ELSE 0)
            /\ store' = IF AnalyzerRun(body[1], out).saved = Null THEN store
                        ELSE save(store, AnalyzerRun(body[1], out).saved[1])
    /\ UNCHANGED clientVars

\* GET /api/history?limit=N
GetHistory(limit) ==
    /\ request' = [route |-> "history", body |-> Null, out |-> AdapterOk(<< >>), limit |-> limit]
    /\ response' = [status |-> 200, analyze |-> AnalyzeResponse(<< >>, Null),
                    history |-> list(store, limit)]
    /\ UNCHANGED <<store, adapterCalls, clientVars>>

ServerNext ==
    \/ \E body \in Bodies, out \in AdapterOutputs : PostAnalyze(body, out)
    \/ \E limit \in Limits : GetHistory(limit)

ServerSpec == Init /\ [][ServerNext]_vars

----------------------------------------------------------------------------
(* Properties *)

JsonExt == <<".", "j", "s", "o", "n">>

\* C1: at most one POST /api/analyze request is outstanding in every
\* reachable state of a client session.
C1_SingleInFlight == BagCardinality(requests) <= 1

\* the status change from -> to, made by an event of kind op, is one of the
\* specified edges (an upload that leaves idle counts as an upload cleared)
SpecifiedEdge(from, to, op) ==
    \/ to = "idle" /\ op \in {"clear", "onload"}
    \/ to = "success" /\ op = "restore"
    \/ from \in {"idle", "success", "error"} /\ to = "ready" /\ op = "onload"
    \/ from \in {"ready", "success", "error"} /\ to = "loading" /\ op = "analyze"
    \/ from = "loading" /\ to \in {"success", "error"} /\ op = "resolve"

\* C2: every change of status is one of the specified edges: idle->ready,
\* success->ready and error->ready by an upload, ready/success/error->loading
\* by analyze, loading->success and loading->error by a resolution, any->idle
\* by a cleared upload, any->success by a history restore.
C2_OnlySpecifiedEdges ==
    [][status' # status => SpecifiedEdge(status, status', evOp')]_vars

\* C3 as stated: the Analyze action is enabled exactly when status is ready
\* or success.
C3_EnabledIffReadyOrSuccess ==
    AnalyzeButtonEnabled <=> status \in {"ready", "success"}

\* C3, amended: the Analyze action is enabled exactly when the analyze view is
\* shown and status is ready or success; taking it with non-empty rawText sets
\* status to loading, clears errorMsg, leaves items and rawText unchanged and
\* issues exactly one request, which carries the current rawText.
C3_AnalyzeEnabledAndEffect ==
    /\ [](AnalyzeButtonEnabled <=> (view = "analyze" /\ status \in {"ready", "success"}))
    /\ [][(ClickAnalyze /\ Truthy(rawText)) =>
            /\ status' = "loading"
            /\ errorMsg' = Null
            /\ items' = items
            /\ rawText' = rawText
            /\ BagCardinality(requests') = BagCardinality(requests) + 1
            /\ CopiesIn([text |-> rawText[1]], requests')
                 = CopiesIn([text |-> rawText[1]], requests) + 1]_vars

\* C3 witness: a re-analysis from success has set loading and issued the
\* request for the current text
C3_Witness ==
    /\ evOp = "analyze" /\ evFrom = "success"
    /\ status = "loading"
    /\ BagIn([text |-> rawText[1]], requests)

\* C4: whenever status is error with text still loaded, the Analyze action is
\* available (and leads to loading without a new upload).
C4_ErrorCanReanalyze ==
    (view = "analyze" /\ status = "error" /\ Truthy(rawText)) => AnalyzeButtonEnabled

\* C5 as stated (its last sentence): every upload that carries file content
\* ends in ready.
C5_EveryFileUploadReady ==
    [][(\E rd \in BagToSet(reads) : ReaderOnload(rd)) => status' = "ready"]_vars

\* C5, amended: an upload with non-empty content sets rawText to it and status
\* to ready; an upload of an empty file sets rawText to '' and status to idle;
\* a cleared upload sets rawText to null and status to idle; each resets items
\* to the empty list and errorMsg to null and leaves the view unchanged.
C5_UploadEffect ==
    [][/\ \A rd \in BagToSet(reads) : ReaderOnload(rd) =>
            /\ rawText' # Null
            /\ rawText' = Some(OnloadText(rd.ext, rd.content))
            /\ status' = (IF rawText'[1] # << >> THEN "ready" ELSE "idle")
            /\ items' = << >> /\ errorMsg' = Null /\ view' = view
       /\ HandleClear =>
            /\ rawText' = Null /\ status' = "idle"
            /\ items' = << >> /\ errorMsg' = Null /\ view' = view]_vars

\* C5 witness: the read of an empty file has completed while a result was shown
C5_Witness ==
    /\ evOp = "onload" /\ evFrom = "success"
    /\ rawText = Some(<< >>) /\ status = "idle" /\ items = << >>

\* C6 (its first case): a response whose error field is non-null moves
\* status to error with errorMsg equal to that error.
C6_NonNullErrorIsError ==
    [][\A req \in BagToSet(requests), resp \in Responses :
         (ResolveAnalyze(req, resp) /\ resp.kind = "json" /\ resp.error # Null)
            => (status' = "error" /\ errorMsg' = resp.error)]_vars

\* The resolution as the code has it: a response whose error field is a
\* non-empty string moves status to error with that errorMsg and leaves items
\* unchanged; a response
\* whose error is null, absent or the empty string moves status to success
\* with the response's items (the empty list if absent); a network failure or
\* an unparsable body moves status to error with the fixed message; no
\* resolution leaves status at loading.
C6_ResolutionEffect ==
    [][\A req \in BagToSet(requests), resp \in Responses :
         ResolveAnalyze(req, resp) =>
            /\ status' # "loading"
            /\ resp.kind \in {"network", "badbody"} =>
                  status' = "error" /\ errorMsg' = Some(CouldNotReach) /\ items' = items
            /\ (resp.kind = "json" /\ resp.error \notin {Null, Some(<< >>)}) =>
                  status' = "error" /\ errorMsg' = resp.error /\ items' = items
            /\ (resp.kind = "json" /\ resp.error \in {Null, Some(<< >>)}) =>
                  /\ status' = "success"
                  /\ items' = (IF resp.items = Null THEN << >> ELSE resp.items[1])]_vars

\* a body with error '' has resolved a request into success
C6_Witness ==
    /\ evOp = "resolve" /\ evArg = "error-empty" /\ evFrom = "loading"
    /\ status = "success"

\* C7: restoring a history run sets items to that run's items, status to
\* success and the view to analyze and issues no request; the restore can be
\* taken whenever the run's Restore button is shown, whatever the status.
C7_RestoreEffect ==
    /\ [](\A run \in AllRuns : RestoreShown(run) => ENABLED ClickRestore(run))
    /\ [][\A run \in AllRuns : ClickRestore(run) =>
            /\ items' = run.items
            /\ status' = "success"
            /\ view' = "analyze"
            /\ requests' = requests]_vars

\* C7 witness: a run was restored while an analyze request was in flight
C7_Witness ==
    /\ evOp = "restore" /\ evFrom = "loading"
    /\ status = "success" /\ view = "analyze" /\ Len(items) > 0
    /\ requests # EmptyBag

\* C8 as stated: dashboard and banner are never shown together; whenever
\* status is error the banner is shown with a non-empty message; whenever
\* status is success the dashboard is shown and no banner.
C8_DashboardOrBanner ==
    /\ ~(DashboardShown /\ ErrorBannerShown)
    /\ status = "error" => (Truthy(errorMsg) /\ ErrorBannerShown)
    /\ status = "success" => (DashboardShown /\ ~ErrorBannerShown)

\* C8, amended: dashboard and banner are never shown together; whenever
\* status is error, errorMsg is non-null and non-empty; while the analyze view
\* is shown, status error shows the banner and status success shows the
\* dashboard and no banner; while the history view is shown, neither is shown.
C8_DashboardOrBannerInAnalyzeView ==
    /\ ~(DashboardShown /\ ErrorBannerShown)
    /\ status = "error" => Truthy(errorMsg)
    /\ view = "analyze" =>
          /\ status = "error" => ErrorBannerShown
          /\ status = "success" => (DashboardShown /\ ~ErrorBannerShown)
    /\ view = "history" => (~DashboardShown /\ ~ErrorBannerShown)

\* C8 witness: a failed request shows the banner in the analyze view
C8_Witness ==
    /\ evOp = "resolve" /\ status = "error" /\ view = "analyze"
    /\ ErrorBannerShown /\ ~DashboardShown

\* the name ends in '.txt' or '.json', compared case-insensitively, the dot
\* being the last dot of the name
HasTxtOrJsonExt(name) ==
    \E k \in 1..Len(name) :
        /\ name[k] = "."
        /\ \A j \in (k+1)..Len(name) : name[j] # "."
        /\ ToLowerCase(SubSeq(name, k + 1, Len(name)))
              \in { <<"t", "x", "t">>, <<"j", "s", "o", "n">> }

\* the files whose extension is neither .txt nor .json
OtherExtFiles == {f \in Files : ~HasTxtOrJsonExt(f.name)}

\* C9: a file whose extension is neither .txt nor .json is rejected, by the
\* file picker and by drag-and-drop alike: no read is started, onUpload is not
\* called, and fileName, fileSize, rawText, status, items and errorMsg stay.
C9_RejectedFileChangesNothing ==
    [][\A f \in OtherExtFiles :
         (HandleDrop(Some(f)) \/ HandleChange(Some(f)))
            => UNCHANGED <<fileName, fileSize, reads, rawText, status, items, errorMsg>>]_vars

\* C9 witness: a file was dropped and rejected while another file was ready
C9_Witness ==
    /\ evOp = "drop" /\ evArg = "rejected"
    /\ fileName = Some(Name_a_json) /\ status = "ready"

\* [[1], 1] as JSON.stringify(value, null, 2) writes it
PrettyJsonText ==
    <<"[", "\n",
      " ", " ", "[", "\n",
      " ", " ", " ", " ", "1", "\n",
      " ", " ", "]", ",", "\n",
      " ", " ", "1", "\n",
      "]">>

\* C10 as stated: for a .json file the text handed on is the re-serialization
\* with indentation of the file's parsed content.
C10_JsonAlwaysReserialized ==
    [][\A rd \in BagToSet(reads) :
         (ReaderOnload(rd) /\ rd.ext = JsonExt) =>
            /\ JSONparse(rd.content).ok
            /\ rawText' = Some(JSONstringify(JSONparse(rd.content).val, 2))]_vars

\* texts that are no JSON: [1   1 1   [1,]   x   and the empty text
NonJsonSamples ==
    { <<"[", "1">>, <<"1", " ", "1">>, <<"[", "1", ",", "]">>, <<"x">>, << >> }

\* texts that are JSON: 11   [ ]   [[1], 1]   and the indented [[1], 1]
JsonSamples ==
    { <<"1", "1">>, <<"[", " ", "]", "\n">>, JsonText, PrettyJsonText }

\* C10, amended: for every accepted file onUpload is called once when the read
\* completes; for a .json file whose content is JSON the text handed on is its
\* re-serialization with indentation 2 (itself JSON, and its own
\* re-serialization); for a .json file whose content is not JSON, and for a
\* .txt file, it is the raw content unchanged.
C10_OnloadText ==
    [][\A rd \in BagToSet(reads) :
         ReaderOnload(rd) =>
            /\ CopiesIn(rd, reads') = CopiesIn(rd, reads) - 1
            /\ BagCardinality(reads') = BagCardinality(reads) - 1
            /\ rd.ext = JsonExt =>
                  /\ rd.content = JsonText => rawText' = Some(PrettyJsonText)
                  /\ rd.content = << >> => rawText' = Some(<< >>)
                  /\ \A c \in NonJsonSamples : OnloadText(rd.ext, c) = c
                  /\ \A c \in JsonSamples :
                        /\ JSONparse(OnloadText(rd.ext, c)).ok
                        /\ OnloadText(rd.ext, OnloadText(rd.ext, c)) = OnloadText(rd.ext, c)
                  /\ OnloadText(rd.ext, <<"[", " ", "]", "\n">>) = <<"[", "]">>
            /\ rd.ext # JsonExt =>
                  /\ rawText' = Some(rd.content)
                  /\ \A c \in NonJsonSamples \cup JsonSamples : OnloadText(rd.ext, c) = c]_vars

\* C10 witness: the read of a .json file that holds no JSON has handed its
\* raw content on
C10_Witness ==
    /\ evOp = "onload" /\ evArg = "json"
    /\ rawText = Some(<< >>) /\ fileName = Some(Name_a_json)

----------------------------------------------------------------------------
(* Properties of the back end, checked under ServerSpec *)

\* the last request was a POST /api/analyze with a well-formed body
Analyzed == request.route = "analyze" /\ request.body # Null

\* the text holds nothing but white space
OnlyWhitespace(text) == \A i \in DOMAIN text : text[i] \in {" ", "\n"}

\* the adapter was called for the last request and returned an array
AdapterSucceeded == Analyzed /\ ~OnlyWhitespace(request.body[1]) /\ request.out.ok

\* the adapter was called for the last request and failed
AdapterFailed == Analyzed /\ ~OnlyWhitespace(request.body[1]) /\ ~request.out.ok

\* an element of the adapter's array is individually valid
IsValidRaw(raw) ==
    /\ raw.category # Null /\ raw.category[1].type = "string"
    /\ raw.category[1].str \in {"Bug", "Feature", "Pain Point"}
    /\ raw.sentiment_score # Null /\ raw.sentiment_score[1].type = "number"
    /\ raw.sentiment_score[1].num \in 0..100
    /\ raw.summary # Null /\ raw.summary[1].type = "string" /\ raw.summary[1].str # ""
    /\ raw.original_text # Null /\ raw.original_text[1].type = "string"
    /\ raw.original_text[1].str # ""

\* the item a valid element stands for
ItemOf(raw) ==
    [category |-> raw.category[1].str, summary |-> raw.summary[1].str,
     sentiment_score |-> raw.sentiment_score[1].num,
     original_text |-> raw.original_text[1].str]

\* the valid elements of an array, in their original order, as items
ValidItems(array) ==
    [k \in 1..Len(SelectSeq(array, IsValidRaw)) |-> ItemOf(SelectSeq(array, IsValidRaw)[k])]

\* C11: for an adapter output of N elements of which M are valid, run
\* returns exactly those M elements in their original order, with count = M
\* and error = null, and no failure status; an invalid element never fails
\* the request.
C11_ValidItemsReturned ==
    AdapterSucceeded =>
        /\ response.analyze.items = ValidItems(request.out.array)
        /\ response.analyze.count
             = Cardinality({k \in 1..Len(request.out.array) : IsValidRaw(request.out.array[k])})
        /\ response.analyze.error = Null
        /\ response.status = 200

\* C11 witness: of four elements the second and the fourth were valid
C11_Witness ==
    /\ AdapterSucceeded
    /\ request.out.array = <<Compliment, SlowApp, ScoreTooBig, DarkMode>>
    /\ response.analyze.items = <<ItemOf(SlowApp), ItemOf(DarkMode)>>
    /\ response.analyze.count = 2

\* C12: every response to POST /api/analyze has exactly the fields items,
\* count and error, with count the length of items; when error is non-null,
\* items is empty and count is 0.
C12_ResponseShape ==
    request.route = "analyze" =>
        /\ DOMAIN response.analyze = {"items", "count", "error"}
        /\ response.analyze.count = Len(response.analyze.items)
        /\ response.analyze.error # Null =>
              (response.analyze.items = << >> /\ response.analyze.count = 0)

\* C12 witness: a response with items and one with an error have been given
C12_Witness ==
    /\ AdapterFailed
    /\ response.analyze.error # Null /\ response.analyze.count = 0
    /\ Len(store) > 0

\* C13: run on an empty or white-space-only text does not call the adapter,
\* persists no run and returns items = [], count = 0, error = 'empty input'.
C13_EmptyInputRejected ==
    [][\A body \in Bodies, out \in AdapterOutputs :
         (PostAnalyze(body, out) /\ body # Null /\ OnlyWhitespace(body[1])) =>
            /\ adapterCalls' = adapterCalls
            /\ store' = store
            /\ response'.analyze
                 = [items |-> << >>, count |-> 0, error |-> Some("empty input")]]_vars

\* C13 witness: a white-space-only text was answered after a run was stored
C13_Witness ==
    /\ Analyzed /\ request.body = Some(<<" ", "\n">>)
    /\ response.analyze.error = Some("empty input")
    /\ Len(store) = 1 /\ adapterCalls = 1

\* C14: a run is persisted exactly when the adapter call succeeded: one run
\* with the valid items (also when there are none) and item_count their
\* number; when the adapter fails the stored runs are unchanged and the
\* response is items = [], count = 0, error non-null.
C14_PersistedIffAdapterSucceeded ==
    [][\A body \in Bodies, out \in AdapterOutputs :
         PostAnalyze(body, out) =>
            IF body # Null /\ ~OnlyWhitespace(body[1]) /\ out.ok
            THEN /\ Len(store') = Len(store) + 1
                 /\ SubSeq(store', 1, Len(store)) = store
                 /\ store'[Len(store')].items = ValidItems(out.array)
                 /\ store'[Len(store')].item_count = Len(ValidItems(out.array))
            ELSE /\ store' = store
                 /\ (body # Null /\ ~OnlyWhitespace(body[1])) =>
                       /\ response'.analyze.items = << >>
                       /\ response'.analyze.count = 0
                       /\ response'.analyze.error # Null]_vars

\* C14 witness: an array without a valid element was stored as an empty run
C14_Witness ==
    /\ AdapterSucceeded
    /\ request.out.array = <<NoSummary, NoOriginal>>
    /\ Len(store) = 2
    /\ store[2].items = << >> /\ store[2].item_count = 0

\* C15 as stated: every request with a well-formed body is answered with
\* status 200, also when the adapter fails; a malformed body with 400.
C15_Always200 ==
    request.route = "analyze" =>
        response.status = (IF request.body = Null THEN 400 ELSE 200)

\* C15, amended: every request with a well-formed body is answered with an
\* AnalyzeResponse; the status is 200, except that a failure of the adapter
\* is answered with status 502 and a non-null error; a malformed body is
\* answered with 400.
C15_StatusOfAnalyze ==
    request.route = "analyze" =>
        /\ DOMAIN response.analyze = {"items", "count", "error"}
        /\ response.status =
              (IF request.body = Null THEN 400 ELSE IF AdapterFailed THEN 502 ELSE 200)
        /\ AdapterFailed => response.analyze.error # Null

\* C15 witness: a quota failure of the adapter was answered with 502
C15_Witness ==
    /\ AdapterFailed /\ request.out.code = "QuotaExceeded"
    /\ response.status = 502
    /\ response.analyze.error # Null

\* C16: list(limit) returns min(limit, number of stored runs) stored runs,
\* each newer than the one after it and all newer than the runs left out;
\* no stored run is updated or deleted; the first run of list(1) is the last
\* one saved, with the same items in the same order.
C16_ListMostRecentFirst ==
    /\ [](\A limit \in Limits :
            /\ Len(list(store, limit)) = Min(limit, Len(store))
            /\ \A k \in 1..Len(list(store, limit)) :
                  /\ \E j \in 1..Len(store) : list(store, limit)[k] = store[j]
                  /\ k > 1 => list(store, limit)[k-1].created_at
                                 > list(store, limit)[k].created_at
            /\ \A j \in 1..Len(store) :
                  (\A k \in 1..Len(list(store, limit)) : list(store, limit)[k] # store[j])
                     => \A k \in 1..Len(list(store, limit)) :
                           list(store, limit)[k].created_at > store[j].created_at)
    /\ [](request.route = "history" => response.history = list(store, request.limit))
    /\ [][/\ Len(store') >= Len(store)
          /\ SubSeq(store', 1, Len(store)) = store
          /\ \A body \in Bodies, out \in AdapterOutputs :
                (PostAnalyze(body, out) /\ store' # store) =>
                   /\ list(store', 1)[1] = store'[Len(store')]
                   /\ list(store', 1)[1].items = response'.analyze.items]_vars

\* C16 witness: of three stored runs a history request got the newest two
C16_Witness ==
    /\ request.route = "history" /\ request.limit = 2
    /\ Len(store) = 3
    /\ response.history = <<store[3], store[2]>>
    /\ store[3].items # store[2].items

\* the candidates validate is tried on: every field absent, of the wrong
\* type, empty, in range, at the ends of the range and out of range
Candidates ==
    { Raw(c, t, n, o) :
        c \in {Null, Some(JNum(1)), Some(JStr("")), Some(JStr("Compliment")),
               Some(JStr("bug")), Some(JStr("Bug")), Some(JStr("Feature")),
               Some(JStr("Pain Point"))},
        t \in {Null, Some(JNum(0)), Some(JStr("")), Some(JStr("s"))},
        n \in {Null, Some(JStr("0.5")), Some(JNum(0 - 1)), Some(JNum(0)),
               Some(JNum(50)), Some(JNum(100)), Some(JNum(101))},
        o \in {Null, Some(JNum(0)), Some(JStr("")), Some(JStr("o"))} }

\* validate accepts raw exactly when the three conditions hold, and gives a
\* failure naming a field and a reason otherwise
ValidateDecides(raw) ==
    IF IsValidRaw(raw)
    THEN validate(raw).ok /\ validate(raw).item = Some(ItemOf(raw))
    ELSE /\ ~validate(raw).ok
         /\ validate(raw).item = Null
         /\ validate(raw).field
              \in {"category", "summary", "sentiment_score", "original_text"}
         /\ validate(raw).reason # ""

\* C17: validate accepts a candidate exactly when its category is Bug,
\* Feature or Pain Point, its sentiment_score lies in [0,1] and its summary
\* and original_text are non-empty; on every other candidate it returns a
\* failure as a value.
C17_ValidateIff ==
    /\ \A raw \in Candidates : ValidateDecides(raw)
    /\ \A k \in 1..Len(request.out.array) : ValidateDecides(request.out.array[k])
    /\ AdapterSucceeded =>
          /\ \A k \in 1..Len(request.out.array) :
                IsValidRaw(request.out.array[k])
                   => \E j \in 1..Len(response.analyze.items) :
                          response.analyze.items[j] = ItemOf(request.out.array[k])
          /\ \A j \in 1..Len(response.analyze.items) :
                \E k \in 1..Len(request.out.array) :
                    /\ IsValidRaw(request.out.array[k])
                    /\ response.analyze.items[j] = ItemOf(request.out.array[k])

\* C17 witness: scores 0 and 1 were accepted and a missing field rejected
C17_Witness ==
    /\ AdapterSucceeded
    /\ request.out.array = <<DarkMode, NoOriginal, SlowApp>>
    /\ response.analyze.items = <<ItemOf(DarkMode), ItemOf(SlowApp)>>

----------------------------------------------------------------------------
(* Properties of the client (continued), checked under Spec *)

\* C18: a response never overwrites state produced by a later user action:
\* a resolution that finds status no longer loading, or rawText no longer
\* the text its request carried, changes neither status nor items nor
\* errorMsg (so items shown after an analysis answer the current rawText).
C18_LateResolutionIgnored ==
    [][\A req \in BagToSet(requests), resp \in Responses :
         (ResolveAnalyze(req, resp) /\ (status # "loading" \/ rawText # Some(req.text)))
            => UNCHANGED <<status, items, errorMsg>>]_vars

\* the text the App receives for an accepted file
UploadedText(f) == OnloadText(ReadOf(f).ext, f.content)

\* C19: whatever the order in which the reads complete, once they have
\* completed rawText is the text of the file whose name the upload component
\* shows, and while the component is shown a read started before a Clear or
\* before a later file choice delivers nothing to the App.
C19_LatestFileWins ==
    /\ []((fileName # Null /\ reads = EmptyBag)
             => rawText = Some(OnloadText(chosen[1].ext, chosen[1].content)))
    /\ [][\A rd \in BagToSet(reads) :
            (ReaderOnload(rd) /\ FileUploadMounted /\ chosen # Some(rd))
               => UNCHANGED appVars]_vars

\* C20: the text of every POST /api/analyze request is the content of a file
\* the user uploaded, never the placeholder '(restored from history)'.
C20_OnlyUploadedTextAnalyzed ==
    \A req \in BagToSet(requests) :
        /\ req.text # RestoredText
        /\ \E f \in Files : ValidExt(f.name) /\ req.text = UploadedText(f)

\* C21: status ready or success implies rawText is non-null and non-empty,
\* so every click on the enabled Analyze button issues a request and moves
\* status to loading.
C21_EnabledAnalyzeHasText ==
    /\ [](status \in {"ready", "success"} => Truthy(rawText))
    /\ [][ClickAnalyze =>
            /\ status' = "loading"
            /\ BagCardinality(requests') = BagCardinality(requests) + 1]_vars

\* C22: status idle implies rawText is null or empty, items is the empty
\* list and errorMsg is null; status loading implies at least one analyze
\* request is outstanding.
C22_IdleAndLoadingInvariant ==
    /\ status = "idle" =>
          (~Truthy(rawText) /\ items = << >> /\ errorMsg = Null)
    /\ status = "loading" => BagCardinality(requests) >= 1

\* C22 witness: the App is idle again, with the text '' of an empty file,
\* after a failed analysis had set an error message
C22_Witness ==
    /\ status = "idle" /\ rawText = Some(<< >>)
    /\ evOp = "onload" /\ evFrom = "error"

\* C23: if every issued analyze request eventually resolves or rejects, every
\* state with status loading is followed by one with status success, error,
\* ready or idle; and status leaves loading only by a resolution, by an
\* upload or by a restore (there is no timeout and no cancellation).
C23_LoadingEnds ==
    /\ (status = "loading") ~> (status \in {"success", "error", "ready", "idle"})
    /\ [][(status = "loading" /\ status' # "loading")
             => evOp' \in {"resolve", "onload", "restore"}]_vars

\* C23 witness: a request that failed has ended loading with an error
C23_Witness ==
    /\ evOp = "resolve" /\ evArg = "catch" /\ evFrom = "loading"
    /\ status = "error" /\ requests = EmptyBag

\* C24: switching between the analyze and history views leaves status,
\* rawText, items and errorMsg unchanged and cancels no outstanding request;
\* a request still resolves, and updates status, while the history view is
\* shown; of the history actions only restore changes the analyze state.
C24_ViewIndependent ==
    /\ [][(evOp' \in {"nav", "back"} \/ (view' # view /\ evOp' # "restore"))
             => UNCHANGED <<rawText, status, items, errorMsg, requests>>]_vars
    /\ [][evOp' \in {"history", "expand"}
             => UNCHANGED <<rawText, status, items, errorMsg, requests>>]_vars
    /\ [](\A req \in BagToSet(requests) :
             ENABLED (\E resp \in Responses : ResolveAnalyze(req, resp)))
    /\ [][\A req \in BagToSet(requests), resp \in Responses :
            (ResolveAnalyze(req, resp) /\ view = "history")
               => /\ status' \in {"success", "error"}
                  /\ view' = "history"]_vars

\* C24 witness: a request issued in the analyze view has resolved, and set
\* success, while the history view was shown
C24_Witness ==
    /\ evOp = "resolve" /\ evFrom = "loading"
    /\ view = "history" /\ status = "success" /\ Len(items) > 0

\* C25: the history view starts in loading with one GET /api/history
\* pending each time it is entered; it moves once, to success with runs set to
\* the response or to error with runs left empty, and then neither leaves that
\* state nor fetches again while mounted; a restore is triggered only in the
\* success state, for the run that is expanded; at most one run is expanded.
C25_HistoryPageLifecycle ==
    /\ [](view = "history" =>
            /\ hstatus \in {"loading", "success", "error"}
            /\ hfetch <=> hstatus = "loading"
            /\ hstatus # "success" => (runs = << >> /\ expanded = Null)
            /\ Cardinality({run \in AllRuns : RestoreShown(run)}) <= 1)
    /\ [](view # "history" => ~hfetch)
    /\ [][(view # "history" /\ view' = "history") =>
            (hstatus' = "loading" /\ hfetch' /\ runs' = << >> /\ expanded' = Null)]_vars
    /\ [][(view = "history" /\ view' = "history" /\ hstatus # "loading") =>
            (hstatus' = hstatus /\ runs' = runs /\ ~hfetch')]_vars
    /\ [][(view = "history" /\ view' = "history" /\ hstatus = "loading"
             /\ hstatus' # "loading") =>
            \/ hstatus' = "error" /\ runs' = << >> /\ evOp' = "history"
            \/ /\ hstatus' = "success" /\ evOp' = "history"
               /\ \E data \in HistoryResponses : HistoryLoaded(data) /\ runs' = data]_vars
    /\ [][\A run \in AllRuns : ClickRestore(run) =>
            /\ hstatus = "success"
            /\ expanded = Some(run.id)
            /\ \E k \in 1..Len(runs) : runs[k] = run]_vars

\* C25 witness: of two loaded runs the second is the one expanded, and the
\* only one whose Restore button is shown
C25_Witness ==
    /\ view = "history" /\ hstatus = "success" /\ Len(runs) = 2
    /\ evOp = "expand" /\ expanded = Some(runs[2].id)
    /\ RestoreShown(runs[2]) /\ ~RestoreShown(runs[1])

RECURSIVE Embeds(_, _, _, _)
\* col[j..] is found, in order, within its[k..]
Embeds(col, j, its, k) ==
    IF j > Len(col) THEN TRUE
    ELSE IF k > Len(its) THEN FALSE
    ELSE IF col[j] = its[k] THEN Embeds(col, j + 1, its, k + 1)
    ELSE Embeds(col, j, its, k + 1)

\* C26: for the items shown in the success state the dashboard puts each
\* item in exactly one of the columns Bug, Feature, Pain Point, the one of its
\* category, keeping the items' order within a column; the column counts sum
\* to the displayed total and no item is missing.
C26_ColumnsPartitionItems ==
    DashboardShown =>
        /\ \A c \in 1..3 :
              /\ \A j \in 1..Len(Columns[c].items) :
                    Columns[c].items[j].category = Columns[c].category
              /\ ColumnBadge(Columns[c])
                   = Cardinality({k \in 1..Len(items) :
                                     items[k].category = Columns[c].category})
              /\ Embeds(Columns[c].items, 1, items, 1)
        /\ \A k \in 1..Len(items) :
              Cardinality({c \in 1..3 :
                             \E j \in 1..Len(Columns[c].items) :
                                 Columns[c].items[j] = items[k]}) = 1
        /\ ColumnBadge(Columns[1]) + ColumnBadge(Columns[2]) + ColumnBadge(Columns[3])
             = DashboardCount

\* C26 witness: a restored run is shown with two items in the Pain Point
\* column, in their order, and one in the Bug column
C26_Witness ==
    /\ DashboardShown /\ evOp = "restore" /\ DashboardCount = 3
    /\ pains = << Item("Pain Point", "s3"), Item("Pain Point", "s5") >>
    /\ bugs = << Item("Bug", "s1") >> /\ features = << >>

====
